---- MODULE Spec2Model ----
(***************************************************************************)
(* Real-time session and presence layer of the Timetracker backend.        *)
(*                                                                         *)
(*   Spec      the connection manager (backend/app/core/websocket.py) and  *)
(*             the websocket endpoint loop that drives it.  Every task is  *)
(*             an asyncio coroutine: it runs atomically from one           *)
(*             suspension point (send_text, receive_text, sleep) to the    *)
(*             next, and any other task may run at a suspension point.     *)
(*   LiveSpec  Spec with the fairness of the event loop, for what must     *)
(*             eventually happen.                                          *)
(*   SessSpec  the session store and the token service                     *)
(*             (backend/app/core/session.py, backend/app/core/security.py) *)
(*   EpSpec    what websocket_endpoint does with a connection attempt      *)
(*             before it calls manager.connect                             *)
(*             (backend/app/api/v1/endpoints/websocket.py, lines 42-60).   *)
(*             Spec starts where the endpoint calls manager.connect.       *)
(***************************************************************************)
EXTENDS Integers, Sequences, FiniteSets, TLC

(***************************************************************************)
(* Bounds of the connection-manager model                                  *)
(***************************************************************************)
MaxEvents == 4        \* external events of one run: connection attempts,
                      \* client closes, producer broadcasts, client messages
MaxSkew == 1          \* a client timestamp runs at most this far ahead

Handles == {"h1", "h2", "h3", "h4"}
Ext == "ext"
Tasks == Handles \cup {Ext}
Orgs == {1, 2}
Users == {0, 1}
UserOf(h) == IF h = "h3" THEN 0 ELSE 1
OrgOf(h) == IF h = "h4" THEN 2 ELSE 1

NoUser == -1          \* Python None where a user id is expected
Tomb == -2            \* a deleted slot of a dict's entry table
\* the frames a client sends besides typing messages, and how a send_text of
\* send_personal_message ends
FrameKinds == {"ping", "request_online_users", "unknown", "not_json"}
SendOutcomes == {"sent", "WebSocketDisconnect", "Exception"}
NoTs == -1            \* typing_data carries no "timestamp"
NoH == "none"

VARIABLES
    active_connections,   \* org -> dict user -> list of handles
    typing_status,        \* org -> dict user -> reference to a typing dict
    typObj,               \* the typing dict objects, named by creating task
    stk,                  \* task -> call stack of coroutine frames
    started,              \* handles whose endpoint coroutine has run
    crashed,              \* tasks ended by an exception nobody caught
    alive,                \* handle -> the transport is open
    now,                  \* the last reading of the clock, or the first
                          \* reading known to have passed since
    lastRead,             \* the last reading a handler took
    nEvents,              \* external events so far
    missed,               \* handles a finished user_offline broadcast left
                          \* out although they stayed registered and open
    unanswered,           \* <<h, x>>: the reply to a frame of handle h was
                          \* not written to handle x of the same user,
                          \* registered from the call to its return and open
    inbound               \* <<handle, kind>> of the frame the last step
                          \* received, or <<>>

wsvars == <<active_connections, typing_status, typObj, stk, started, crashed,
            alive, now, lastRead, nEvents, missed, unanswered, inbound>>

(***************************************************************************)
(* Bounds of the session-store model                                       *)
(***************************************************************************)
MaxTokens == 2        \* tokens issued in one run
SessionTtl == 2       \* settings.session_expire_seconds, in clock ticks
MaxClock == 3         \* the clock of the token service stops here
MaxFlips == 1         \* times the store becomes unreachable or reachable again
MaxCalls == 4         \* calls of the token service in one run
MaxOverlaps == 1      \* calls, seconds and outages that begin while a call
                      \* is in flight

\* access_token_expire_minutes (1440 min) is session_expire_seconds (86400 s)
TokenDefaultTtl == SessionTtl

Reqs == {1, 2}                      \* requests in flight at the same time
Subjects == {1, 2}                  \* the subject of a token
SnapIds == {NoUser, 0, 1}           \* user_data.get("id"); NoUser: no user_data
NoDelta == -9                       \* expires_delta is None
Deltas == {NoDelta, 0, SessionTtl}      \* expires_delta, in clock ticks
TokenIds == 1..MaxTokens
NoSid == 0                          \* no session id: "" or None
NoExp == -1                         \* a store key without a time to live

VARIABLES
    redis_client,         \* session_manager.redis_client is set
    booted,               \* the startup hook has run
    up,                   \* the store answers
    sessions,             \* store keys session:<sid>
    user_sessions,        \* store keys user_sessions:<user>
    clock,                \* seconds, as jwt and the store count them
    tokens,               \* the tokens issued so far
    nTokens,
    req,                  \* request -> frame of the call it is making
    nFlips,
    nCalls,
    nOverlaps,
    revoked,              \* tokens whose revoke_token call has returned
    revokedAll,           \* session tokens of u issued before the call of a
                          \* revoke_all_user_tokens(u) that reached the store
                          \* and has returned
    quiet                 \* the token issued by the last return, while
                          \* nothing but its verification has run since

sessvars == <<redis_client, booted, up, sessions, user_sessions, clock, tokens,
              nTokens, req, nFlips, nCalls, nOverlaps, revoked, revokedAll, quiet>>

(***************************************************************************)
(* The prologue of the websocket endpoint                                  *)
(***************************************************************************)
VARIABLES
    attempt               \* handle -> what its connection attempt presented
                          \* and how websocket_endpoint answered it

epvars == <<attempt>>

(***************************************************************************)
(* Single calls of the token service and the session store                 *)
(***************************************************************************)
VARIABLES
    probe                 \* the call made: what it was given, the store it
                          \* met and what it did and returned

callvars == <<probe>>
vars == <<wsvars, sessvars, epvars, callvars>>

(***************************************************************************)
(* Python dict and list as the code uses them.  A dict keeps its keys in   *)
(* an entry table in insertion order; del leaves a tombstone; a new key is *)
(* appended.  The dict iterator remembers the size at creation and a       *)
(* position in the entry table.                                            *)
(***************************************************************************)
NoDict == [present |-> FALSE, keys |-> <<>>, lists |-> [u \in Users |-> <<>>]]
EmptyDict == [present |-> TRUE, keys |-> <<>>, lists |-> [u \in Users |-> <<>>]]

LiveKeys(d) == {d.keys[i] : i \in 1..Len(d.keys)} \ {Tomb}
Size(d) == Cardinality(LiveKeys(d))
HasUser(d, u) == d.present /\ u \in LiveKeys(d)
DictInsert(d, u) == [d EXCEPT !.keys = Append(@, u), !.lists[u] = <<>>]
DictDel(d, u) ==
    [d EXCEPT !.keys = [i \in 1..Len(@) |-> IF @[i] = u THEN Tomb ELSE @[i]],
              !.lists[u] = <<>>]
ListRemove(l, h) == SelectSeq(l, LAMBDA x : x # h)
InList(l, h) == \E i \in 1..Len(l) : l[i] = h
SeqRange(s) == {s[i] : i \in 1..Len(s)}
MinOf(S) == CHOOSE x \in S : \A y \in S : x <= y

NoTyping == [present |-> FALSE, ent |-> [u \in Users |-> NoH]]
EmptyTyping == [present |-> TRUE, ent |-> [u \in Users |-> NoH]]
NoObj == [is_typing |-> FALSE, timestamp |-> NoTs]

\* Python truthiness of an Optional[int]
Truthy(x) == x # NoUser /\ x # 0

(***************************************************************************)
(* Messages and coroutine frames                                           *)
(***************************************************************************)
NoMsg == [type |-> "none", user |-> NoUser, obj |-> NoH, snap |-> FALSE]
Msg(type, user) == [NoMsg EXCEPT !.type = type, !.user = user]
TypingMsgRef(user, obj) == [NoMsg EXCEPT !.type = "typing_status", !.user = user, !.obj = obj]
TypingMsgSnap(user, v) == [NoMsg EXCEPT !.type = "typing_status", !.user = user, !.snap = v]

\* a frame of broadcast_to_organization: the two iterators of its loops, the
\* collected failures, and (top: the producer's own call) what it did
BcFrame(org, msg, excl) ==
    [fn |-> "bc", pc |-> "start", org |-> org, msg |-> msg, excl |-> excl,
     pos |-> 0, used0 |-> 0, len |-> 0, ddead |-> FALSE,
     cu |-> NoUser, li |-> 0, ldead |-> FALSE, cur |-> NoH,
     failed |-> <<>>, ci |-> 0,
     top |-> FALSE, reg0 |-> {}, joined |-> {}, pushed |-> {}, twice |-> FALSE,
     early |-> FALSE, raised |-> FALSE]
DiscFrame(h, org, user) ==
    [fn |-> "disc", pc |-> "start", h |-> h, org |-> org, user |-> user]
ConnFrame(h, org, user) ==
    [fn |-> "conn", pc |-> "insert", h |-> h, org |-> org, user |-> user]
TypFrame(h, org, user, typ, cts) ==
    [fn |-> "typ", pc |-> "start", org |-> org, user |-> user,
     typ |-> typ, cts |-> cts, ts |-> NoTs, wake |-> 0]
EpFrame(h, org, user, pc) ==
    [fn |-> "ep", pc |-> pc, h |-> h, org |-> org, user |-> user]
\* a frame of send_personal_message called for the frame connection h sent:
\* the iterator of its loop over the list of (org, user), and the handles
\* the message was written to
PmFrame(h, org, user, type, users) ==
    [fn |-> "pm", pc |-> "start", h |-> h, org |-> org, user |-> user,
     type |-> type, users |-> users, li |-> 0, ldead |-> FALSE, cur |-> NoH,
     reg0 |-> {}, got |-> {}]

\* "done": the producer's broadcast has returned or raised and the producer
\* is about to read the outcome; nothing else runs before it has.
SuspendedPcs == {"send", "sleep", "recv", "errsend", "jsonerr", "done"}

(***************************************************************************)
(* The machine state one task runs on between two suspension points        *)
(***************************************************************************)
Machine ==
    [ac |-> active_connections, ty |-> typing_status, tobj |-> typObj,
     stk |-> stk, crashed |-> crashed, alive |-> alive,
     now |-> now, exc |-> FALSE, missed |-> missed, unanswered |-> unanswered]

Top(m, t) == m.stk[t][Len(m.stk[t])]
SetTop(m, t, f) == [m EXCEPT !.stk[t][Len(m.stk[t])] = f]
Push(m, t, f) == [m EXCEPT !.stk[t] = Append(@, f)]
Pop(m, t) == [m EXCEPT !.stk[t] = SubSeq(@, 1, Len(@) - 1)]
Raise(m) == [m EXCEPT !.exc = TRUE]

\* A broadcast suspended in send_text is the top frame of its task; a
\* send_personal_message is the second frame of its endpoint task.  The
\* list object of (org, user) leaves the registry: an iterator that holds it
\* sees an empty list from now on.
MarkListDead(stacks, org, user) ==
    [t \in Tasks |->
        IF Len(stacks[t]) = 0 THEN stacks[t]
        ELSE LET f == stacks[t][Len(stacks[t])]
                 s1 == IF f.fn = "bc" /\ f.org = org /\ f.cu = user /\ f.pc = "send"
                       THEN [stacks[t] EXCEPT ![Len(stacks[t])].ldead = TRUE]
                       ELSE stacks[t]
             IN IF Len(s1) >= 2 /\ s1[2].fn = "pm" /\ s1[2].org = org
                   /\ s1[2].user = user
                THEN [s1 EXCEPT ![2].ldead = TRUE]
                ELSE s1]

\* the dict object of org leaves the registry
MarkDictDead(stacks, org) ==
    [t \in Tasks |->
        IF Len(stacks[t]) = 0 THEN stacks[t]
        ELSE LET f == stacks[t][Len(stacks[t])] IN
             IF f.fn = "bc" /\ f.org = org /\ f.pc = "send"
             THEN [stacks[t] EXCEPT ![Len(stacks[t])].ddead = TRUE]
             ELSE stacks[t]]

\* the handles registered in dict d, and those of user u
ConnsOf(d, u) == IF HasUser(d, u) THEN SeqRange(d.lists[u]) ELSE {}
RegOf(d) == UNION {ConnsOf(d, u) : u \in Users}

(***************************************************************************)
(* ConnectionManager.broadcast_to_organization                             *)
(***************************************************************************)
\* the broadcasts whose deliveries are recorded: the producer's own call and
\* the user_offline broadcast of disconnect (lines 64-71)
Tracked(f) == f.top \/ f.msg.type = "user_offline"

\* the broadcast of frame f ends: the handles registered when it began that
\* are still registered and open and were not pushed its user_offline
Missed(m, f) ==
    IF f.msg.type = "user_offline"
    THEN {h \in f.reg0 : h \in RegOf(m.ac[f.org]) /\ m.alive[h] /\ h \notin f.pushed}
    ELSE {}
Ended(m, t, f) == [Pop(m, t) EXCEPT !.missed = @ \cup Missed(m, f)]

\* lines 104-107: early return, else the dict iterator of the for loop;
\* joined are the registered connections whose connect() has returned
BcStart(m, t, f) ==
    LET d == m.ac[f.org]
        joined == {h \in RegOf(d) :
                     \A i \in 1..Len(m.stk[h]) : m.stk[h][i].fn # "conn"}
    IN
    IF ~d.present
    THEN SetTop(m, t, [f EXCEPT !.pc = "return", !.early = TRUE])
    ELSE SetTop(m, t, [f EXCEPT !.pc = "dnext", !.pos = 0, !.used0 = Size(d),
                                !.len = Size(d), !.ddead = FALSE,
                                !.failed = <<>>,
                                !.reg0 = IF Tracked(f) THEN RegOf(d) ELSE {},
                                !.joined = IF f.top THEN joined ELSE {}])

\* line 110: the exclude test of the loop body
Excluded(excl, user) == Truthy(excl) /\ user = excl

\* line 109: next() of the dict iterator, then lines 110-111
BcDictNext(m, t, f) ==
    LET d == m.ac[f.org]
        idxs == IF f.ddead THEN {}
                ELSE {i \in (f.pos + 1)..Len(d.keys) : d.keys[i] # Tomb}
    IN
    IF f.ddead \/ f.used0 # Size(d) THEN Raise(m)
    ELSE IF idxs = {}
    THEN SetTop(m, t, [f EXCEPT !.pc = "cleanup", !.ci = 1, !.pos = 0, !.used0 = 0,
                                !.len = 0, !.cu = NoUser, !.li = 0, !.ldead = FALSE])
    ELSE IF f.len = 0 THEN Raise(m)
    ELSE LET i == MinOf(idxs)
             u == d.keys[i]
             g == [f EXCEPT !.pos = i, !.len = f.len - 1]
         IN IF Excluded(f.excl, u)
            THEN SetTop(m, t, g)
            ELSE SetTop(m, t, [g EXCEPT !.cu = u, !.li = 0, !.ldead = FALSE,
                                        !.pc = "lnext"])

\* line 113: next() of the list iterator; line 115 suspends in send_text
BcListNext(m, t, f) ==
    LET l == IF f.ldead THEN <<>> ELSE m.ac[f.org].lists[f.cu] IN
    IF f.li < Len(l)
    THEN SetTop(m, t, [f EXCEPT !.cur = l[f.li + 1], !.li = f.li + 1, !.pc = "send"])
    ELSE SetTop(m, t, [f EXCEPT !.pc = "dnext", !.cur = NoH])

\* lines 114-120: send_text returned or raised
BcSendDone(m, t, f) ==
    IF m.alive[f.cur]
    THEN SetTop(m, t, [f EXCEPT !.pushed = IF Tracked(f) THEN @ \cup {f.cur} ELSE @,
                                !.twice = @ \/ (f.top /\ f.cur \in f.pushed),
                                !.pc = "lnext"])
    ELSE SetTop(m, t, [f EXCEPT !.failed = Append(@, <<f.cur, f.cu>>), !.pc = "lnext"])

\* lines 123-124: disconnect every collected handle
BcCleanup(m, t, f) ==
    IF f.ci > Len(f.failed)
    THEN SetTop(m, t, [f EXCEPT !.pc = "return"])
    ELSE Push(SetTop(m, t, [f EXCEPT !.ci = f.ci + 1]), t,
              DiscFrame(f.failed[f.ci][1], f.org, f.failed[f.ci][2]))

BcReturn(m, t, f) ==
    IF f.top THEN SetTop(m, t, [f EXCEPT !.pc = "done"])
    ELSE Ended(m, t, f)

(***************************************************************************)
(* ConnectionManager.disconnect                                            *)
(***************************************************************************)
\* lines 48-71 without the membership test of line 50: a handle that is not in
\* the list takes the list of its user with it
DiscStartDropsUser(m, t, f) ==
    LET d == m.ac[f.org] IN
    IF HasUser(d, f.user)
    THEN LET l1 == IF InList(d.lists[f.user], f.h)
                   THEN ListRemove(d.lists[f.user], f.h)
                   ELSE <<>>
         IN
         IF l1 = <<>>
         THEN LET m1 == [m EXCEPT
                           !.ac[f.org] = DictDel(d, f.user),
                           !.ty[f.org] = IF @.present
                                         THEN [@ EXCEPT !.ent[f.user] = NoH]
                                         ELSE @,
                           !.stk = MarkListDead(@, f.org, f.user)]
              IN Push(SetTop(m1, t, [f EXCEPT !.pc = "orgclean"]), t,
                      BcFrame(f.org, Msg("user_offline", f.user), NoUser))
         ELSE SetTop([m EXCEPT !.ac[f.org].lists[f.user] = l1], t,
                     [f EXCEPT !.pc = "orgclean"])
    ELSE SetTop(m, t, [f EXCEPT !.pc = "return"])

\* lines 48-71
DiscStart(m, t, f) ==
    LET d == m.ac[f.org] IN
    IF HasUser(d, f.user)
    THEN LET l1 == IF InList(d.lists[f.user], f.h)
                   THEN ListRemove(d.lists[f.user], f.h)
                   ELSE d.lists[f.user]
         IN
         IF l1 = <<>>
         THEN LET m1 == [m EXCEPT
                           !.ac[f.org] = DictDel(d, f.user),
                           !.ty[f.org] = IF @.present
                                         THEN [@ EXCEPT !.ent[f.user] = NoH]
                                         ELSE @,
                           !.stk = MarkListDead(@, f.org, f.user)]
              IN Push(SetTop(m1, t, [f EXCEPT !.pc = "orgclean"]), t,
                      BcFrame(f.org, Msg("user_offline", f.user), NoUser))
         ELSE SetTop([m EXCEPT !.ac[f.org].lists[f.user] = l1], t,
                     [f EXCEPT !.pc = "orgclean"])
    ELSE SetTop(m, t, [f EXCEPT !.pc = "return"])

\* lines 73-77 without the del of lines 74-77
DiscOrgCleanKeepsOrg(m, t, f) ==
    IF ~m.ac[f.org].present THEN Raise(m)
    ELSE SetTop(m, t, [f EXCEPT !.pc = "return"])

\* lines 73-77 with a typing_status that is dropped as a whole
DiscOrgCleanDropsAllTyping(m, t, f) ==
    IF ~m.ac[f.org].present THEN Raise(m)
    ELSE IF Len(SelectSeq(m.ac[f.org].keys, LAMBDA k : k # Tomb)) = 0
    THEN SetTop([m EXCEPT !.ac[f.org] = NoDict,
                          !.ty = [o \in Orgs |-> NoTyping],
                          !.stk = MarkDictDead(@, f.org)], t,
                [f EXCEPT !.pc = "return"])
    ELSE SetTop(m, t, [f EXCEPT !.pc = "return"])

\* lines 73-77; a missing organization raises KeyError into line 81
DiscOrgClean(m, t, f) ==
    LET d == m.ac[f.org] IN
    IF ~d.present THEN Raise(m)
    ELSE IF Size(d) = 0
    THEN SetTop([m EXCEPT !.ac[f.org] = NoDict,
                          !.ty[f.org] = NoTyping,
                          !.stk = MarkDictDead(@, f.org)], t,
                [f EXCEPT !.pc = "return"])
    ELSE SetTop(m, t, [f EXCEPT !.pc = "return"])

(***************************************************************************)
(* ConnectionManager.connect, after websocket.accept()                     *)
(***************************************************************************)
\* lines 24-41
ConnInsert(m, t, f) ==
    LET d0 == IF m.ac[f.org].present THEN m.ac[f.org] ELSE EmptyDict
        d1 == IF HasUser(d0, f.user) THEN d0 ELSE DictInsert(d0, f.user)
        d2 == [d1 EXCEPT !.lists[f.user] = Append(@, f.h)]
    IN Push(SetTop([m EXCEPT !.ac[f.org] = d2], t, [f EXCEPT !.pc = "return"]), t,
            BcFrame(f.org, Msg("user_online", f.user), f.user))

(***************************************************************************)
(* ConnectionManager.handle_typing_status                                  *)
(***************************************************************************)
\* lines 160-178: the entry is a fresh dict stamped with the server clock
TypStart(m, t, f) ==
    LET ty0 == IF m.ty[f.org].present THEN m.ty[f.org] ELSE EmptyTyping
        m1 == [m EXCEPT !.ty[f.org] = [ty0 EXCEPT !.ent[f.user] = t],
                        !.tobj[t] = [is_typing |-> f.typ, timestamp |-> m.now]]
    IN Push(SetTop(m1, t, [f EXCEPT !.pc = "afterbc1", !.ts = m.now]), t,
            BcFrame(f.org, TypingMsgRef(f.user, t), f.user))

\* lines 181-182
TypAfterBc1(m, t, f) ==
    IF f.typ
    THEN SetTop(m, t, [f EXCEPT !.pc = "sleep", !.wake = m.now])
    ELSE SetTop(m, t, [f EXCEPT !.pc = "return"])

\* lines 183-186: the guard of the delayed clear
ClearGuard(entryTimestamp, dataTimestamp) == entryTimestamp = dataTimestamp

\* lines 183-197, run when the sleep is over
TypWake(m, t, f) ==
    LET ref == m.ty[f.org].ent[f.user] IN
    IF m.ty[f.org].present /\ ref # NoH
        /\ ClearGuard(m.tobj[ref].timestamp, f.cts)
    THEN Push(SetTop([m EXCEPT !.tobj[ref].is_typing = FALSE], t,
                     [f EXCEPT !.pc = "return"]), t,
              BcFrame(f.org, TypingMsgSnap(f.user, FALSE), f.user))
    ELSE SetTop(m, t, [f EXCEPT !.pc = "return"])

(***************************************************************************)
(* ConnectionManager.send_personal_message and get_online_users            *)
(***************************************************************************)
\* lines 199-203, as the set of the users listed
GetOnlineUsers(d) == IF d.present THEN LiveKeys(d) ELSE {}

\* lines 86-91: the test, next() of the iterator over the live list, the
\* suspension in send_text; at the return the handles are noted that the
\* message was not written to although they are registered and open
SendPersonalMessage(m, t, f) ==
    LET l == IF f.ldead \/ ~HasUser(m.ac[f.org], f.user) THEN <<>>
             ELSE m.ac[f.org].lists[f.user]
    IN
    IF f.pc = "start"
    THEN SetTop(m, t, [f EXCEPT !.pc = IF HasUser(m.ac[f.org], f.user)
                                       THEN "lnext" ELSE "return",
                                !.reg0 = ConnsOf(m.ac[f.org], f.user)])
    ELSE IF f.pc = "lnext" /\ f.li < Len(l)
    THEN SetTop(m, t, [f EXCEPT !.cur = l[f.li + 1], !.li = f.li + 1, !.pc = "send"])
    ELSE [Pop(m, t) EXCEPT !.unanswered =
             @ \cup {<<f.h, x>> : x \in {y \in f.reg0 \ f.got :
                                            /\ y \in ConnsOf(m.ac[f.org], f.user)
                                            /\ m.alive[y]}}]

\* lines 90-95: send_text returned, raised WebSocketDisconnect (the handle is
\* disconnected) or raised another exception (which is logged)
PmSendDone(m, t, f, outcome) ==
    IF outcome = "sent"
    THEN SetTop(m, t, [f EXCEPT !.got = @ \cup {f.cur}, !.pc = "lnext"])
    ELSE IF outcome = "WebSocketDisconnect"
    THEN Push(SetTop(m, t, [f EXCEPT !.pc = "lnext"]), t,
              DiscFrame(f.cur, f.org, f.user))
    ELSE SetTop(m, t, [f EXCEPT !.pc = "lnext"])

\* as HandleWebsocketMessage, but text that is not JSON ends the connection
HandleWebsocketMessageClosesOnBadJson(m, h, kind) ==
    LET ep == Top(m, h)
        called == SetTop(m, h, [ep EXCEPT !.pc = "afterhandle"])
    IN
    CASE kind = "ping" ->
            Push(called, h, PmFrame(h, ep.org, ep.user, "pong", {}))
      [] kind = "request_online_users" ->
            Push(called, h, PmFrame(h, ep.org, ep.user, "online_users",
                                    GetOnlineUsers(m.ac[ep.org])))
      [] kind = "not_json" ->
            Push(SetTop(m, h, [ep EXCEPT !.pc = "afterdisc"]), h,
                 DiscFrame(h, ep.org, ep.user))
      [] OTHER -> called

\* handle_websocket_message lines 225-253 for the types other than "typing",
\* and lines 67-73 of the endpoint for a frame that is not JSON
HandleWebsocketMessage(m, h, kind) ==
    LET ep == Top(m, h)
        called == SetTop(m, h, [ep EXCEPT !.pc = "afterhandle"])
    IN
    CASE kind = "ping" ->
            Push(called, h, PmFrame(h, ep.org, ep.user, "pong", {}))
      [] kind = "request_online_users" ->
            Push(called, h, PmFrame(h, ep.org, ep.user, "online_users",
                                    GetOnlineUsers(m.ac[ep.org])))
      [] kind = "not_json" -> SetTop(m, h, [ep EXCEPT !.pc = "jsonerr"])
      [] OTHER -> called

(***************************************************************************)
(* websocket_endpoint: the receive loop and its exception handlers         *)
(***************************************************************************)
\* api/v1/endpoints/websocket.py lines 60-84
EpStep(m, t, f) ==
    IF f.pc \in {"afterconnect", "afterhandle"}
    THEN SetTop(m, t, [f EXCEPT !.pc = "recv"])
    ELSE Pop(m, t)

\* An exception reaches frame f: disconnect swallows it (line 81), the loop of
\* the endpoint answers it with an error frame (lines 74-78), an exception out
\* of manager.connect ends the endpoint, everything else passes it on.
Unwind(m, t, f) ==
    IF f.fn = "disc"
    THEN SetTop([m EXCEPT !.exc = FALSE], t, [f EXCEPT !.pc = "return"])
    ELSE IF f.fn = "ep" /\ f.pc = "afterhandle"
    THEN SetTop([m EXCEPT !.exc = FALSE], t, [f EXCEPT !.pc = "errsend"])
    ELSE IF f.fn = "ep"
    THEN [Pop(m, t) EXCEPT !.exc = FALSE, !.crashed = @ \cup {t},
                           !.alive[f.h] = FALSE]
    ELSE IF f.fn = "bc" /\ f.top
    THEN SetTop([m EXCEPT !.exc = FALSE], t, [f EXCEPT !.pc = "done", !.raised = TRUE])
    ELSE IF f.fn = "bc" THEN Ended(m, t, f)
    ELSE Pop(m, t)

\* one step of task t between two suspension points
Step(m, t) ==
    LET f == Top(m, t) IN
    IF m.exc THEN Unwind(m, t, f)
    ELSE IF f.fn = "bc" THEN
        CASE f.pc = "start" -> BcStart(m, t, f)
          [] f.pc = "dnext" -> BcDictNext(m, t, f)
          [] f.pc = "lnext" -> BcListNext(m, t, f)
          [] f.pc = "cleanup" -> BcCleanup(m, t, f)
          [] OTHER -> BcReturn(m, t, f)
    ELSE IF f.fn = "disc" THEN
        CASE f.pc = "start" -> DiscStart(m, t, f)
          [] f.pc = "orgclean" -> DiscOrgClean(m, t, f)
          [] OTHER -> Pop(m, t)
    ELSE IF f.fn = "conn" THEN
        CASE f.pc = "insert" -> ConnInsert(m, t, f)
          [] OTHER -> Pop(m, t)
    ELSE IF f.fn = "typ" THEN
        CASE f.pc = "start" -> TypStart(m, t, f)
          [] f.pc = "afterbc1" -> TypAfterBc1(m, t, f)
          [] f.pc = "wake" -> TypWake(m, t, f)
          [] OTHER -> Pop(m, t)
    ELSE IF f.fn = "pm" THEN SendPersonalMessage(m, t, f)
    ELSE EpStep(m, t, f)

RECURSIVE Run(_, _)
Run(m, t) ==
    IF Len(m.stk[t]) = 0 THEN m
    ELSE IF ~m.exc /\ Top(m, t).pc \in SuspendedPcs THEN m
    ELSE Run(Step(m, t), t)

\* task t runs from machine state m0 to its next suspension point
Referenced(m, h) ==
    \/ \E o \in Orgs, u \in Users : m.ty[o].present /\ m.ty[o].ent[u] = h
    \/ \E i \in 1..Len(m.stk[h]) :
          m.stk[h][i].fn = "bc" /\ m.stk[h][i].msg.obj = h

\* A tombstone is seen by a dict iterator alone: with no iterator suspended
\* on the dict the entry table is written without its tombstones.
Iterated(m, o) ==
    \E t \in Tasks : /\ Len(m.stk[t]) > 0
                     /\ Top(m, t).fn = "bc" /\ Top(m, t).org = o
                     /\ Top(m, t).pc = "send" /\ ~Top(m, t).ddead
Compact(m, o) ==
    IF Iterated(m, o) THEN m.ac[o]
    ELSE [m.ac[o] EXCEPT !.keys = SelectSeq(@, LAMBDA k : k # Tomb)]

Continue(m0, t) ==
    \E m \in {Run(m0, t)} :
    /\ active_connections' = [o \in Orgs |-> Compact(m, o)]
    /\ typing_status' = m.ty
    /\ typObj' = [h \in Handles |-> IF Referenced(m, h) THEN m.tobj[h] ELSE NoObj]
    /\ stk' = m.stk
    /\ crashed' = m.crashed
    /\ alive' = m.alive
    /\ missed' = m.missed
    /\ unanswered' = m.unanswered

\* as Continue, in a step that received no frame
Resume(m0, t) ==
    /\ Continue(m0, t)
    /\ inbound' = <<>>

AtPc(t, fn, pc) ==
    /\ Len(stk[t]) > 0
    /\ stk[t][Len(stk[t])].fn = fn
    /\ stk[t][Len(stk[t])].pc = pc

(***************************************************************************)
(* Actions                                                                 *)
(***************************************************************************)
\* the producer's call has ended and the producer has not yet taken the outcome
Returning == AtPc(Ext, "bc", "done")

\* one more external event
Event ==
    /\ nEvents < MaxEvents
    /\ nEvents' = nEvents + 1

\* the producer takes the outcome of its broadcast
ExtReturn ==
    /\ Returning
    /\ stk' = [stk EXCEPT ![Ext] = <<>>]
    /\ inbound' = <<>>
    /\ UNCHANGED <<active_connections, typing_status, typObj, started, crashed,
                   alive, now, lastRead, nEvents, missed, unanswered>>
    /\ UNCHANGED <<sessvars, epvars, callvars>>

WsInit ==
    /\ active_connections = [o \in Orgs |-> NoDict]
    /\ typing_status = [o \in Orgs |-> NoTyping]
    /\ typObj = [t \in Handles |-> NoObj]
    /\ stk = [t \in Tasks |-> <<>>]
    /\ started = {}
    /\ crashed = {}
    /\ alive = [h \in Handles |-> TRUE]
    /\ now = 0
    /\ lastRead = -1
    /\ nEvents = 0
    /\ missed = {}
    /\ unanswered = {}
    /\ inbound = <<>>
    /\ redis_client = FALSE /\ booted = FALSE /\ up = TRUE
    /\ sessions = <<>> /\ user_sessions = <<>> /\ tokens = <<>> /\ req = <<>>
    /\ clock = 0 /\ nTokens = 0 /\ nFlips = 0 /\ nCalls = 0 /\ nOverlaps = 0
    /\ revoked = {} /\ revokedAll = {} /\ quiet = 0
    /\ attempt = <<>>
    /\ probe = [op |-> "none"]

\* the endpoint has authenticated the user and calls manager.connect
ManagerConnect(h) ==
    /\ ~Returning
    /\ Event
    /\ h \notin started
    /\ alive[h]
    /\ started' = started \cup {h}
    /\ Resume([Machine EXCEPT !.stk[h] =
                  <<EpFrame(h, OrgOf(h), UserOf(h), "afterconnect"),
                    ConnFrame(h, OrgOf(h), UserOf(h))>>], h)
    /\ UNCHANGED <<now, lastRead>>

Connect(h) ==
    /\ ManagerConnect(h)
    /\ UNCHANGED <<sessvars, epvars, callvars>>

\* a domain-event producer calls broadcast_to_organization
ExtBroadcast(o, x) ==
    /\ ~Returning
    /\ stk[Ext] = <<>>
    /\ Event
    /\ Resume([Machine EXCEPT
                  !.stk[Ext] = <<[BcFrame(o, Msg("event", NoUser), x)
                                    EXCEPT !.top = TRUE]>>], Ext)
    /\ UNCHANGED <<started, now, lastRead>>
    /\ UNCHANGED <<sessvars, epvars, callvars>>

\* a suspended send_text of a broadcast returns or raises
SendDone(t) ==
    /\ ~Returning
    /\ AtPc(t, "bc", "send")
    /\ Resume(BcSendDone(Machine, t, Top(Machine, t)), t)
    /\ UNCHANGED <<started, now, lastRead, nEvents>>
    /\ UNCHANGED <<sessvars, epvars, callvars>>

\* receive_text returns a typing message; frames the client sent before it
\* closed are still delivered, ahead of the disconnect
RecvTyping(h, typ, r, cts) ==
    /\ ~Returning
    /\ AtPc(h, "ep", "recv")
    /\ Event
    /\ now' = r
    /\ lastRead' = r
    /\ Continue(Push(SetTop([Machine EXCEPT !.now = r], h,
                            [Top(Machine, h) EXCEPT !.pc = "afterhandle"]),
                     h, TypFrame(h, OrgOf(h), UserOf(h), typ, cts)), h)
    /\ inbound' = <<h, "typing">>
    /\ UNCHANGED started
    /\ UNCHANGED <<sessvars, epvars, callvars>>

\* receive_text raises WebSocketDisconnect
RecvDisconnect(h) ==
    /\ ~Returning
    /\ AtPc(h, "ep", "recv")
    /\ ~alive[h]
    /\ Resume(Push(SetTop(Machine, h, [Top(Machine, h) EXCEPT !.pc = "afterdisc"]),
                   h, DiscFrame(h, OrgOf(h), UserOf(h))), h)
    /\ UNCHANGED <<started, now, lastRead, nEvents>>
    /\ UNCHANGED <<sessvars, epvars, callvars>>

\* receive_text returns a frame that is not a typing message: a ping, a
\* request_online_users, a message of another type, or text that is not JSON
RecvMessage(h, kind) ==
    /\ ~Returning
    /\ AtPc(h, "ep", "recv")
    /\ Event
    /\ Continue(HandleWebsocketMessage(Machine, h, kind), h)
    /\ inbound' = <<h, kind>>
    /\ UNCHANGED <<started, now, lastRead>>
    /\ UNCHANGED <<sessvars, epvars, callvars>>

\* a suspended send_text of send_personal_message returns or raises
PmSent(h, outcome) ==
    /\ ~Returning
    /\ AtPc(h, "pm", "send")
    /\ (outcome = "sent") = alive[Top(Machine, h).cur]
    /\ Resume(PmSendDone(Machine, h, Top(Machine, h), outcome), h)
    /\ UNCHANGED <<started, now, lastRead, nEvents>>
    /\ UNCHANGED <<sessvars, epvars, callvars>>

\* the error frame of lines 70-73 or 75-78 was sent, or its send raised into
\* line 80 or 82
ErrSendDone(h) ==
    /\ ~Returning
    /\ (AtPc(h, "ep", "errsend") \/ AtPc(h, "ep", "jsonerr"))
    /\ Resume(IF alive[h]
              THEN SetTop(Machine, h, [Top(Machine, h) EXCEPT !.pc = "recv"])
              ELSE Push(SetTop(Machine, h, [Top(Machine, h) EXCEPT !.pc = "afterdisc"]),
                        h, DiscFrame(h, OrgOf(h), UserOf(h))), h)
    /\ UNCHANGED <<started, now, lastRead, nEvents>>
    /\ UNCHANGED <<sessvars, epvars, callvars>>

\* asyncio.sleep(3) is over: the clock has passed the reading taken when the
\* sleep began, and sleeps of equal length end in the order they began
TimerFire(t) ==
    /\ ~Returning
    /\ AtPc(t, "typ", "sleep")
    /\ now' = IF now > stk[t][Len(stk[t])].wake THEN now
              ELSE stk[t][Len(stk[t])].wake + 1
    /\ \A t2 \in Handles :
          AtPc(t2, "typ", "sleep") => stk[t2][Len(stk[t2])].wake >= stk[t][Len(stk[t])].wake
    /\ Resume(SetTop(Machine, t, [Top(Machine, t) EXCEPT !.pc = "wake"]), t)
    /\ UNCHANGED <<started, lastRead, nEvents>>
    /\ UNCHANGED <<sessvars, epvars, callvars>>

\* the client closes its connection
ClientClose(h) ==
    /\ ~Returning
    /\ Event
    /\ h \in started
    /\ alive[h]
    /\ alive' = [alive EXCEPT ![h] = FALSE]
    /\ inbound' = <<>>
    /\ UNCHANGED <<active_connections, typing_status, typObj, stk, started,
                   crashed, now, lastRead, missed, unanswered>>
    /\ UNCHANGED <<sessvars, epvars, callvars>>

\* The clock is read by handle_typing_status alone and only the equality of
\* two readings matters: a reading repeats the last one or is the next one.
Readings == IF lastRead = now THEN {now, now + 1} ELSE {now}

\* typing_data.get("timestamp"): absent, or a clock reading; a reading older
\* than the server clock r equals no timestamp the server will store
ClientTimestamps(r) == {NoTs} \cup r..(r + MaxSkew)

WsNext ==
    \/ \E h \in Handles : Connect(h)
    \/ \E o \in Orgs, x \in Users \cup {NoUser} : ExtBroadcast(o, x)
    \/ \E t \in Tasks : SendDone(t)
    \/ \E h \in Handles, r \in Readings :
          \/ \E cts \in ClientTimestamps(r) : RecvTyping(h, TRUE, r, cts)
          \/ RecvTyping(h, FALSE, r, NoTs)
    \/ \E h \in Handles, kind \in FrameKinds : RecvMessage(h, kind)
    \/ \E h \in Handles, outcome \in SendOutcomes : PmSent(h, outcome)
    \/ \E h \in Handles : RecvDisconnect(h)
    \/ \E h \in Handles : ErrSendDone(h)
    \/ \E t \in Handles : TimerFire(t)
    \/ \E h \in Handles : ClientClose(h)
    \/ ExtReturn



(***************************************************************************)
(* The session store (core/session.py) and the token service               *)
(* (core/security.py).  Every call to the store is a suspension point: it  *)
(* takes effect at the store, or raises when the store is unreachable.     *)
(***************************************************************************)
NoSession == [live |-> FALSE, user_id |-> NoUser, exp |-> 0]
NoIndex == [live |-> FALSE, members |-> {}, exp |-> NoExp]
NoToken == [issued |-> FALSE, sub |-> NoUser, sid |-> NoSid, exp |-> 0]

\* the frame of a request: op is the function of security.py it called, pc the
\* store call it is suspended in
NoReq ==
    [op |-> "idle", pc |-> "idle", tok |-> 0, sub |-> NoUser, user |-> NoUser,
     sid |-> NoSid, exp |-> 0, ids |-> {}, toks |-> {}, ok |-> FALSE,
     after |-> FALSE, afterAll |-> FALSE, upAll |-> FALSE, downAll |-> FALSE,
     valid |-> FALSE, wrote |-> FALSE, seen |-> {}, keep |-> {}, lost |-> {}]

SomeDone == \E r \in Reqs : req[r].pc = "done"
Done(f) == [f EXCEPT !.pc = "done"]

\* a store call of frame f is answered (or not) by the store
Called(f) == [f EXCEPT !.upAll = @ /\ up, !.downAll = @ /\ ~up]

\* a frame starts: what it knows of the store when it starts
Begun(f) == [f EXCEPT !.upAll = redis_client /\ up, !.downAll = ~redis_client \/ ~up]

\* jose checks the exp claim against the clock: expired when exp < now
Unexpired(t) == clock <= tokens[t].exp

\* the store drops a key whose time to live is over
Expire(c, k) == IF k.live /\ k.exp # NoExp /\ k.exp <= c THEN [k EXCEPT !.live = FALSE] ELSE k
Canon(k, none) == IF k.live THEN k ELSE none

Quiet(q) == quiet' = q

\* something begins, possibly while a call is in flight
Overlap ==
    IF \E q \in Reqs : req[q].op # "idle"
    THEN nOverlaps < MaxOverlaps /\ nOverlaps' = nOverlaps + 1
    ELSE UNCHANGED nOverlaps

\* request r starts a call: the requests are alike, the first idle one does
Call(r) ==
    /\ req[r].op = "idle"
    /\ \A q \in Reqs : req[q].op = "idle" => r <= q
    /\ nCalls < MaxCalls
    /\ nCalls' = nCalls + 1
    /\ Overlap

SessInit ==
    /\ redis_client = FALSE
    /\ booted = FALSE
    /\ up \in BOOLEAN
    /\ sessions = [i \in TokenIds |-> NoSession]
    /\ user_sessions = [u \in Subjects |-> NoIndex]
    /\ clock = 0
    /\ tokens = [i \in TokenIds |-> NoToken]
    /\ nTokens = 0
    /\ req = [r \in Reqs |-> NoReq]
    /\ nFlips = 0
    /\ nCalls = 0
    /\ nOverlaps = 0
    /\ revoked = {}
    /\ revokedAll = {}
    /\ quiet = 0
    /\ active_connections = <<>> /\ typing_status = <<>> /\ typObj = <<>>
    /\ stk = <<>> /\ started = {} /\ crashed = {} /\ alive = <<>>
    /\ now = 0 /\ lastRead = 0 /\ nEvents = 0 /\ missed = {}
    /\ unanswered = {} /\ inbound = <<>>
    /\ attempt = <<>>
    /\ probe = [op |-> "none"]

\* session.py lines 20-39, called by the startup hook (main.py line 82)
SessionConnect ==
    /\ ~booted
    /\ booted' = TRUE
    /\ redis_client' = up
    /\ Quiet(0)
    /\ UNCHANGED <<wsvars, epvars, callvars>>
    /\ UNCHANGED <<up, sessions, user_sessions, clock, tokens, nTokens, req,
                   nFlips, revoked, revokedAll, nCalls, nOverlaps>>

\* the store becomes unreachable, or reachable again
StoreFlip ==
    /\ ~SomeDone
    /\ nFlips < MaxFlips
    /\ nFlips' = nFlips + 1
    /\ up' = ~up
    /\ Overlap
    /\ Quiet(0)
    /\ UNCHANGED <<wsvars, epvars, callvars>>
    /\ UNCHANGED <<redis_client, booted, sessions, user_sessions, clock, tokens,
                   nTokens, req, revoked, revokedAll, nCalls>>

\* a second passes; the store drops the keys whose time to live is over
Tick ==
    /\ ~SomeDone
    /\ clock < MaxClock
    /\ clock' = clock + 1
    /\ sessions' = [i \in TokenIds |-> Canon(Expire(clock + 1, sessions[i]), NoSession)]
    /\ user_sessions' = [u \in Subjects |-> Canon(Expire(clock + 1, user_sessions[u]), NoIndex)]
    /\ Overlap
    /\ Quiet(0)
    /\ UNCHANGED <<wsvars, epvars, callvars>>
    /\ UNCHANGED <<redis_client, booted, up, tokens, nTokens, req, nFlips,
                   revoked, revokedAll, nCalls>>

(***************************************************************************)
(* create_access_token and SessionManager.create_session                   *)
(***************************************************************************)
\* security.py lines 17-22
ExpiryOf(delta) ==
    IF delta # NoDelta /\ delta # 0 THEN clock + delta ELSE clock + TokenDefaultTtl

\* security.py line 39: the token is encoded, with the session id if any
Issued(f, sid) == Done([f EXCEPT !.sid = sid])

\* security.py lines 11-35 and session.py lines 56-60
CreateAccessToken(r, subject, snap, delta) ==
    /\ ~SomeDone
    /\ booted
    /\ Call(r)
    /\ nTokens < MaxTokens
    /\ nTokens' = nTokens + 1
    /\ LET f == Begun([NoReq EXCEPT !.op = "create", !.tok = nTokens + 1,
                                    !.sub = subject, !.user = snap,
                                    !.exp = ExpiryOf(delta)])
       IN req' = [req EXCEPT ![r] =
                    IF snap # NoUser /\ redis_client /\ Truthy(snap)
                    THEN [f EXCEPT !.pc = "cs_setex", !.sid = nTokens + 1]
                    ELSE Issued(f, NoSid)]
    /\ Quiet(0)
    /\ UNCHANGED <<wsvars, epvars, callvars>>
    /\ UNCHANGED <<redis_client, booted, up, sessions, user_sessions, clock,
                   tokens, nFlips, revoked, revokedAll>>

\* session.py lines 69-74, 84-86
CsSetex(r) ==
    /\ ~SomeDone
    /\ req[r].pc = "cs_setex"
    /\ IF up
       THEN /\ sessions' = [sessions EXCEPT ![req[r].sid] =
                              [live |-> TRUE, user_id |-> req[r].user,
                               exp |-> clock + SessionTtl]]
            /\ req' = [req EXCEPT ![r] = [Called(@) EXCEPT !.pc = "cs_sadd",
                                                         !.wrote = TRUE]]
       ELSE /\ req' = [req EXCEPT ![r] = Issued(Called(@), NoSid)]
            /\ UNCHANGED sessions
    /\ Quiet(0)
    /\ UNCHANGED <<wsvars, epvars, callvars>>
    /\ UNCHANGED <<redis_client, booted, up, user_sessions, clock, tokens,
                   nTokens, nFlips, revoked, revokedAll, nCalls, nOverlaps>>

\* session.py lines 77-78, 84-86: SADD makes the key when it is missing
CsSadd(r) ==
    /\ ~SomeDone
    /\ req[r].pc = "cs_sadd"
    /\ IF up
       THEN /\ user_sessions' = [user_sessions EXCEPT ![req[r].user] =
                                   [@ EXCEPT !.live = TRUE,
                                             !.members = @ \cup {req[r].sid}]]
            /\ req' = [req EXCEPT ![r] = [Called(@) EXCEPT !.pc = "cs_expire"]]
       ELSE /\ req' = [req EXCEPT ![r] = Issued(Called(@), NoSid)]
            /\ UNCHANGED user_sessions
    /\ Quiet(0)
    /\ UNCHANGED <<wsvars, epvars, callvars>>
    /\ UNCHANGED <<redis_client, booted, up, sessions, clock, tokens, nTokens,
                   nFlips, revoked, revokedAll, nCalls, nOverlaps>>

\* session.py lines 79-86 and security.py lines 36-37
CsExpire(r) ==
    /\ ~SomeDone
    /\ req[r].pc = "cs_expire"
    /\ IF up
       THEN /\ user_sessions' = [user_sessions EXCEPT ![req[r].user] =
                                   IF @.live THEN [@ EXCEPT !.exp = clock + SessionTtl]
                                   ELSE @]
            /\ req' = [req EXCEPT ![r] = Issued(Called(@), @.sid)]
       ELSE /\ req' = [req EXCEPT ![r] = Issued(Called(@), NoSid)]
            /\ UNCHANGED user_sessions
    /\ Quiet(0)
    /\ UNCHANGED <<wsvars, epvars, callvars>>
    /\ UNCHANGED <<redis_client, booted, up, sessions, clock, tokens, nTokens,
                   nFlips, revoked, revokedAll, nCalls, nOverlaps>>


(***************************************************************************)
(* verify_access_token, revoke_token and SessionManager.get_session        *)
(***************************************************************************)
\* security.py lines 64-75 without the owner test of lines 68-69
GetSessionReturnsAnyOwner(f, data) ==
    IF f.op = "verify"
    THEN Done([f EXCEPT !.ok = data # NoUser])
    ELSE IF data # NoUser THEN [f EXCEPT !.pc = "ds_delete", !.user = data]
    ELSE Done(f)

\* get_session has returned data (the user_id of the record, NoUser for None)
\* to the frame that called it: security.py lines 64-75, session.py lines
\* 142-143
GetSessionReturns(f, data) ==
    IF f.op = "verify"
    THEN Done([f EXCEPT !.ok = data # NoUser /\ data = f.sub])
    ELSE IF data # NoUser THEN [f EXCEPT !.pc = "ds_delete", !.user = data]
    ELSE Done(f)

\* security.py lines 46-63 and session.py line 90
VerifyAccessToken(r, t) ==
    /\ ~SomeDone
    /\ booted
    /\ Call(r)
    /\ tokens[t].issued
    /\ LET f == Begun([NoReq EXCEPT !.op = "verify", !.tok = t,
                                    !.sub = tokens[t].sub, !.sid = tokens[t].sid,
                                    !.valid = Unexpired(t),
                                    !.after = t \in revoked,
                                    !.afterAll = t \in revokedAll])
       IN req' = [req EXCEPT ![r] =
                    IF ~Unexpired(t) THEN Done(f)
                    ELSE IF tokens[t].sid = NoSid \/ ~redis_client
                    THEN Done([f EXCEPT !.ok = TRUE])
                    ELSE [f EXCEPT !.pc = "gs_get"]]
    /\ Quiet(IF t = quiet /\ \A q \in Reqs : req[q].op = "idle" THEN quiet ELSE 0)
    /\ UNCHANGED <<wsvars, epvars, callvars>>
    /\ UNCHANGED <<redis_client, booted, up, sessions, user_sessions, clock,
                   tokens, nTokens, nFlips, revoked, revokedAll>>

\* session.py lines 94-97, 107-111
GsGet(r) ==
    /\ ~SomeDone
    /\ req[r].pc = "gs_get"
    /\ req' = [req EXCEPT ![r] =
                 IF up /\ sessions[@.sid].live
                 THEN [Called(@) EXCEPT !.pc = "gs_setex",
                                        !.user = sessions[req[r].sid].user_id]
                 ELSE GetSessionReturns(Called(@), NoUser)]
    /\ Quiet(IF req[r].op = "verify" /\ req[r].tok = quiet THEN quiet ELSE 0)
    /\ UNCHANGED <<wsvars, epvars, callvars>>
    /\ UNCHANGED <<redis_client, booted, up, sessions, user_sessions, clock,
                   tokens, nTokens, nFlips, revoked, revokedAll, nCalls, nOverlaps>>

\* session.py lines 98-106 with a write that keeps the time to live of the
\* record (SET ... KEEPTTL instead of SETEX)
GsSetexKeepsTtl(r) ==
    /\ ~SomeDone
    /\ req[r].pc = "gs_setex"
    /\ IF up
       THEN /\ sessions' = [sessions EXCEPT ![req[r].sid] =
                              IF @.live THEN [@ EXCEPT !.user_id = req[r].user]
                              ELSE [live |-> TRUE, user_id |-> req[r].user,
                                    exp |-> clock + SessionTtl]]
            /\ req' = [req EXCEPT ![r] = GetSessionReturns(Called(@), @.user)]
       ELSE /\ req' = [req EXCEPT ![r] = GetSessionReturns(Called(@), NoUser)]
            /\ UNCHANGED sessions
    /\ Quiet(IF req[r].op = "verify" /\ req[r].tok = quiet THEN quiet ELSE 0)
    /\ UNCHANGED <<wsvars, epvars, callvars>>
    /\ UNCHANGED <<redis_client, booted, up, user_sessions, clock, tokens,
                   nTokens, nFlips, revoked, revokedAll, nCalls, nOverlaps>>

\* session.py lines 98-106, 109-111: the record read is written back with a
\* new time to live
GsSetex(r) ==
    /\ ~SomeDone
    /\ req[r].pc = "gs_setex"
    /\ IF up
       THEN /\ sessions' = [sessions EXCEPT ![req[r].sid] =
                              [live |-> TRUE, user_id |-> req[r].user,
                               exp |-> clock + SessionTtl]]
            /\ req' = [req EXCEPT ![r] = GetSessionReturns(Called(@), @.user)]
       ELSE /\ req' = [req EXCEPT ![r] = GetSessionReturns(Called(@), NoUser)]
            /\ UNCHANGED sessions
    /\ Quiet(IF req[r].op = "verify" /\ req[r].tok = quiet THEN quiet ELSE 0)
    /\ UNCHANGED <<wsvars, epvars, callvars>>
    /\ UNCHANGED <<redis_client, booted, up, user_sessions, clock, tokens,
                   nTokens, nFlips, revoked, revokedAll, nCalls, nOverlaps>>

\* api/v1/deps.py lines 18-55, from the outcome f of its verify_access_token
\* call: the user returned, or Unauthorized for the HTTP 401.  Every user id
\* has a row; the sub claim is str(id) (security.py line 26), a row's email is
\* an address (schemas/user.py line 7), so the lookup by email of the legacy
\* path compares a string of digits with addresses.
Unauthorized == 401
GetCurrentUser(f) ==
    LET sub == <<f.sub>>
        email == [u \in Subjects |-> <<u, "@">>]
        byEmail == {u \in Subjects : email[u] = sub}
    IN
    IF f.ok THEN f.sub
    ELSE IF ~f.valid THEN Unauthorized
    ELSE IF byEmail = {} THEN Unauthorized
    ELSE CHOOSE u \in byEmail : TRUE

\* security.py lines 83-91 and session.py lines 137-141
RevokeToken(r, t) ==
    /\ ~SomeDone
    /\ booted
    /\ Call(r)
    /\ tokens[t].issued
    /\ LET f == Begun([NoReq EXCEPT !.op = "revoke", !.tok = t,
                                    !.sub = tokens[t].sub, !.sid = tokens[t].sid,
                                    !.valid = Unexpired(t)])
       IN req' = [req EXCEPT ![r] =
                    IF ~Unexpired(t) \/ tokens[t].sid = NoSid \/ ~redis_client
                    THEN Done(f)
                    ELSE [f EXCEPT !.pc = "gs_get"]]
    /\ Quiet(0)
    /\ UNCHANGED <<wsvars, epvars, callvars>>
    /\ UNCHANGED <<redis_client, booted, up, sessions, user_sessions, clock,
                   tokens, nTokens, nFlips, revoked, revokedAll>>

\* session.py lines 146-147, 155-156
DsDelete(r) ==
    /\ ~SomeDone
    /\ req[r].pc = "ds_delete"
    /\ IF up
       THEN /\ sessions' = [sessions EXCEPT ![req[r].sid] = NoSession]
            /\ req' = [req EXCEPT ![r] = [Called(@) EXCEPT !.pc = "ds_srem"]]
       ELSE /\ req' = [req EXCEPT ![r] = Done(Called(@))]
            /\ UNCHANGED sessions
    /\ Quiet(0)
    /\ UNCHANGED <<wsvars, epvars, callvars>>
    /\ UNCHANGED <<redis_client, booted, up, user_sessions, clock, tokens,
                   nTokens, nFlips, revoked, revokedAll, nCalls, nOverlaps>>

\* SREM of the last member removes the key
SRem(k, sid) ==
    IF ~k.live THEN k
    ELSE IF k.members \ {sid} = {} THEN NoIndex
    ELSE [k EXCEPT !.members = @ \ {sid}]

\* session.py lines 150-156
DsSrem(r) ==
    /\ ~SomeDone
    /\ req[r].pc = "ds_srem"
    /\ IF up
       THEN user_sessions' = [user_sessions EXCEPT ![req[r].user] = SRem(@, req[r].sid)]
       ELSE UNCHANGED user_sessions
    /\ req' = [req EXCEPT ![r] = Done(Called(@))]
    /\ Quiet(0)
    /\ UNCHANGED <<wsvars, epvars, callvars>>
    /\ UNCHANGED <<redis_client, booted, up, sessions, clock, tokens, nTokens,
                   nFlips, revoked, revokedAll, nCalls, nOverlaps>>

(***************************************************************************)
(* revoke_all_user_tokens and SessionManager.delete_user_sessions          *)
(***************************************************************************)
\* the session tokens issued for user u
SessionTokensOf(u) ==
    {t \in TokenIds : tokens[t].issued /\ tokens[t].sub = u /\ tokens[t].sid # NoSid}

\* security.py lines 94-96 and session.py lines 160-161
RevokeAllUserTokens(r, u) ==
    /\ ~SomeDone
    /\ booted
    /\ Call(r)
    /\ LET f == Begun([NoReq EXCEPT !.op = "revoke_all", !.user = u,
                                    !.toks = SessionTokensOf(u)]) IN
       req' = [req EXCEPT ![r] =
                  IF redis_client THEN [f EXCEPT !.pc = "du_smembers"] ELSE Done(f)]
    /\ Quiet(0)
    /\ UNCHANGED <<wsvars, epvars, callvars>>
    /\ UNCHANGED <<redis_client, booted, up, sessions, user_sessions, clock,
                   tokens, nTokens, nFlips, revoked, revokedAll>>

\* session.py lines 164-165, 177-178
DuSmembers(r) ==
    /\ ~SomeDone
    /\ req[r].pc = "du_smembers"
    /\ req' = [req EXCEPT ![r] =
                 IF ~up THEN Done(Called(@))
                 ELSE LET ids == IF user_sessions[@.user].live
                                 THEN user_sessions[@.user].members ELSE {}
                      IN [Called(@) EXCEPT !.ids = ids,
                                           !.pc = IF ids = {} THEN "du_delidx"
                                                  ELSE "du_delete"]]
    /\ Quiet(0)
    /\ UNCHANGED <<wsvars, epvars, callvars>>
    /\ UNCHANGED <<redis_client, booted, up, sessions, user_sessions, clock,
                   tokens, nTokens, nFlips, revoked, revokedAll, nCalls, nOverlaps>>

\* session.py lines 168-170, 177-178: one pass of the loop, in the order the
\* set of ids yields them
DuDelete(r, sid) ==
    /\ ~SomeDone
    /\ req[r].pc = "du_delete"
    /\ sid \in req[r].ids
    /\ IF up
       THEN /\ sessions' = [sessions EXCEPT ![sid] = NoSession]
            /\ req' = [req EXCEPT ![r] =
                         [Called(@) EXCEPT !.ids = @ \ {sid},
                                           !.pc = IF req[r].ids = {sid}
                                                  THEN "du_delidx" ELSE "du_delete"]]
       ELSE /\ req' = [req EXCEPT ![r] = Done(Called(@))]
            /\ UNCHANGED sessions
    /\ Quiet(0)
    /\ UNCHANGED <<wsvars, epvars, callvars>>
    /\ UNCHANGED <<redis_client, booted, up, user_sessions, clock, tokens,
                   nTokens, nFlips, revoked, revokedAll, nCalls, nOverlaps>>

\* session.py lines 173-178
DuDelIdx(r) ==
    /\ ~SomeDone
    /\ req[r].pc = "du_delidx"
    /\ IF up
       THEN user_sessions' = [user_sessions EXCEPT ![req[r].user] = NoIndex]
       ELSE UNCHANGED user_sessions
    /\ req' = [req EXCEPT ![r] = Done(Called(@))]
    /\ Quiet(0)
    /\ UNCHANGED <<wsvars, epvars, callvars>>
    /\ UNCHANGED <<redis_client, booted, up, sessions, clock, tokens, nTokens,
                   nFlips, revoked, revokedAll, nCalls, nOverlaps>>

(***************************************************************************)
(* SessionManager.cleanup_expired_sessions: seen are the keys the scan has *)
(* yielded, ids the members still to test, keep the valid_sessions, lost   *)
(* the members the rewrite dropped although their record exists            *)
(***************************************************************************)
\* session.py lines 182-188
CleanupExpiredSessions(r) ==
    /\ ~SomeDone
    /\ booted
    /\ Call(r)
    /\ LET f == Begun([NoReq EXCEPT !.op = "cleanup"]) IN
       req' = [req EXCEPT ![r] =
                  IF redis_client THEN [f EXCEPT !.pc = "cl_scan"] ELSE Done(f)]
    /\ Quiet(0)
    /\ UNCHANGED <<wsvars, epvars, callvars>>
    /\ UNCHANGED <<redis_client, booted, up, sessions, user_sessions, clock,
                   tokens, nTokens, nFlips, revoked, revokedAll>>

\* session.py lines 188-189, 205-206: the scan yields a key it has not
\* yielded yet (u = NoUser: none is left)
ClScan(r, u) ==
    /\ ~SomeDone
    /\ req[r].pc = "cl_scan"
    /\ LET keys == {v \in Subjects \ req[r].seen : user_sessions[v].live} IN
       /\ IF up /\ keys # {} THEN u \in keys ELSE u = NoUser
       /\ req' = [req EXCEPT ![r] =
                    IF u = NoUser THEN Done(Called(@))
                    ELSE [Called(@) EXCEPT !.user = u, !.seen = @ \cup {u},
                                           !.pc = "cl_smembers"]]
    /\ Quiet(0)
    /\ UNCHANGED <<wsvars, epvars, callvars>>
    /\ UNCHANGED <<redis_client, booted, up, sessions, user_sessions, clock,
                   tokens, nTokens, nFlips, revoked, revokedAll, nCalls, nOverlaps>>

\* session.py lines 189-195, 205-206
ClSmembers(r) ==
    /\ ~SomeDone
    /\ req[r].pc = "cl_smembers"
    /\ req' = [req EXCEPT ![r] =
                 IF ~up THEN Done(Called(@))
                 ELSE LET ids == IF user_sessions[@.user].live
                                 THEN user_sessions[@.user].members ELSE {}
                      IN [Called(@) EXCEPT !.ids = ids, !.keep = {},
                                           !.pc = IF ids = {} THEN "cl_delete"
                                                  ELSE "cl_exists"]]
    /\ Quiet(0)
    /\ UNCHANGED <<wsvars, epvars, callvars>>
    /\ UNCHANGED <<redis_client, booted, up, sessions, user_sessions, clock,
                   tokens, nTokens, nFlips, revoked, revokedAll, nCalls, nOverlaps>>

\* session.py lines 192-199, 203, 205-206: one pass of the loop, in the order
\* the set of ids yields them
ClExists(r, sid) ==
    /\ ~SomeDone
    /\ req[r].pc = "cl_exists"
    /\ sid \in req[r].ids
    /\ req' = [req EXCEPT ![r] =
                 IF ~up THEN Done(Called(@))
                 ELSE [Called(@) EXCEPT
                         !.ids = @ \ {sid},
                         !.keep = IF sessions[sid].live THEN @ \cup {sid} ELSE @,
                         !.pc = IF req[r].ids = {sid} THEN "cl_delete"
                                ELSE "cl_exists"]]
    /\ Quiet(0)
    /\ UNCHANGED <<wsvars, epvars, callvars>>
    /\ UNCHANGED <<redis_client, booted, up, sessions, user_sessions, clock,
                   tokens, nTokens, nFlips, revoked, revokedAll, nCalls, nOverlaps>>

\* session.py lines 198-203, 205-206: DEL of the index
ClDelete(r) ==
    /\ ~SomeDone
    /\ req[r].pc = "cl_delete"
    /\ IF up
       THEN /\ user_sessions' = [user_sessions EXCEPT ![req[r].user] = NoIndex]
            /\ req' = [req EXCEPT ![r] =
                         [Called(@) EXCEPT
                            !.lost = @ \cup
                               {sid \in user_sessions[req[r].user].members \ req[r].keep :
                                   sessions[sid].live},
                            !.pc = IF req[r].keep # {} THEN "cl_sadd" ELSE "cl_scan"]]
       ELSE /\ req' = [req EXCEPT ![r] = Done(Called(@))]
            /\ UNCHANGED user_sessions
    /\ Quiet(0)
    /\ UNCHANGED <<wsvars, epvars, callvars>>
    /\ UNCHANGED <<redis_client, booted, up, sessions, clock, tokens, nTokens,
                   nFlips, revoked, revokedAll, nCalls, nOverlaps>>

\* session.py lines 200, 205-206: SADD of the valid ids
ClSadd(r) ==
    /\ ~SomeDone
    /\ req[r].pc = "cl_sadd"
    /\ IF up
       THEN /\ user_sessions' = [user_sessions EXCEPT ![req[r].user] =
                                   [@ EXCEPT !.live = TRUE,
                                             !.members = @ \cup req[r].keep]]
            /\ req' = [req EXCEPT ![r] = [Called(@) EXCEPT !.pc = "cl_expire"]]
       ELSE /\ req' = [req EXCEPT ![r] = Done(Called(@))]
            /\ UNCHANGED user_sessions
    /\ Quiet(0)
    /\ UNCHANGED <<wsvars, epvars, callvars>>
    /\ UNCHANGED <<redis_client, booted, up, sessions, clock, tokens, nTokens,
                   nFlips, revoked, revokedAll, nCalls, nOverlaps>>

\* session.py lines 201, 205-206
ClExpire(r) ==
    /\ ~SomeDone
    /\ req[r].pc = "cl_expire"
    /\ IF up
       THEN /\ user_sessions' = [user_sessions EXCEPT ![req[r].user] =
                                   IF @.live THEN [@ EXCEPT !.exp = clock + SessionTtl]
                                   ELSE @]
            /\ req' = [req EXCEPT ![r] = [Called(@) EXCEPT !.pc = "cl_scan"]]
       ELSE /\ req' = [req EXCEPT ![r] = Done(Called(@))]
            /\ UNCHANGED user_sessions
    /\ Quiet(0)
    /\ UNCHANGED <<wsvars, epvars, callvars>>
    /\ UNCHANGED <<redis_client, booted, up, sessions, clock, tokens, nTokens,
                   nFlips, revoked, revokedAll, nCalls, nOverlaps>>

\* the call of request r returns to its caller
ReqReturn(r) ==
    /\ req[r].pc = "done"
    /\ req' = [req EXCEPT ![r] = NoReq]
    /\ tokens' = IF req[r].op = "create"
                 THEN [tokens EXCEPT ![req[r].tok] =
                         [issued |-> TRUE, sub |-> req[r].sub, sid |-> req[r].sid,
                          exp |-> req[r].exp]]
                 ELSE tokens
    /\ revoked' = IF req[r].op = "revoke" THEN revoked \cup {req[r].tok} ELSE revoked
    /\ revokedAll' = IF req[r].op = "revoke_all" /\ req[r].upAll
                     THEN revokedAll \cup req[r].toks
                     ELSE revokedAll
    /\ Quiet(IF req[r].op = "create" THEN req[r].tok ELSE 0)
    /\ UNCHANGED <<wsvars, epvars, callvars>>
    /\ UNCHANGED <<redis_client, booted, up, sessions, user_sessions, clock,
                   nTokens, nFlips, nCalls, nOverlaps>>

SessNext ==
    \/ SessionConnect
    \/ StoreFlip
    \/ Tick
    \/ \E r \in Reqs, u \in Subjects, snap \in SnapIds, delta \in Deltas :
          CreateAccessToken(r, u, snap, delta)
    \/ \E r \in Reqs : CsSetex(r)
    \/ \E r \in Reqs : CsSadd(r)
    \/ \E r \in Reqs : CsExpire(r)
    \/ \E r \in Reqs, t \in TokenIds : VerifyAccessToken(r, t)
    \/ \E r \in Reqs : GsGet(r)
    \/ \E r \in Reqs : GsSetex(r)
    \/ \E r \in Reqs, t \in TokenIds : RevokeToken(r, t)
    \/ \E r \in Reqs : DsDelete(r)
    \/ \E r \in Reqs : DsSrem(r)
    \/ \E r \in Reqs, u \in Subjects : RevokeAllUserTokens(r, u)
    \/ \E r \in Reqs : DuSmembers(r)
    \/ \E r \in Reqs, sid \in TokenIds : DuDelete(r, sid)
    \/ \E r \in Reqs : DuDelIdx(r)
    \/ \E r \in Reqs : CleanupExpiredSessions(r)
    \/ \E r \in Reqs, u \in Subjects \cup {NoUser} : ClScan(r, u)
    \/ \E r \in Reqs : ClSmembers(r)
    \/ \E r \in Reqs, sid \in TokenIds : ClExists(r, sid)
    \/ \E r \in Reqs : ClDelete(r)
    \/ \E r \in Reqs : ClSadd(r)
    \/ \E r \in Reqs : ClExpire(r)
    \/ \E r \in Reqs : ReqReturn(r)

\* the session store and the token service; the connection manager is not
\* running
SessSpec == SessInit /\ [][SessNext]_vars

\* the connection manager; the token service is not running
Spec == WsInit /\ [][WsNext]_vars

\* The event loop runs every task that is ready: a producer whose call has
\* ended takes the outcome.  Whether a send_text ever completes is up to the
\* peer and the network, and the frames and connections that arrive are up to
\* the clients.
LiveSpec ==
    /\ WsInit /\ [][WsNext]_vars
    /\ WF_vars(ExtReturn)

(***************************************************************************)
(* websocket_endpoint, lines 42-60: what a connection attempt meets before *)
(* manager.connect                                                         *)
(***************************************************************************)
AuthClose == 4001
AccessClose == 4003
\* the endpoint ended with an exception nobody caught: the server refuses the
\* connection, the endpoint has sent no close code
NoClose == 0
Connected == 1

\* the token of the query string
TokenKinds == {"missing", "bad_signature", "expired", "revoked_session", "valid"}
\* the memberships of the token's user in the organization of the path
MemberKinds == {"none", "inactive", "active"}

NoAttempt == [tok |-> "unused", mem |-> "unused", out |-> NoClose]

\* line 47: `async with get_db().__anext__() as db`.  __anext__() of an async
\* generator returns an awaitable, which has no __aenter__: the statement
\* raises TypeError before its body runs.
DbSessionEntered == FALSE

\* get_user_from_token, lines 18-30: jwt.decode checks signature and expiry
\* and nothing else; the row of the subject is read from the database
GetUserFromToken(tok) == tok \in {"revoked_session", "valid"}

\* line 54: the organizations of all membership rows of the user
UserOrgs(mem) == IF mem \in {"inactive", "active"} THEN Orgs ELSE {}

\* lines 42-60
EndpointOutcome(h, tok, mem) ==
    IF tok = "missing" THEN AuthClose
    ELSE IF ~DbSessionEntered THEN NoClose
    ELSE IF ~GetUserFromToken(tok) THEN AuthClose
    ELSE IF OrgOf(h) \notin UserOrgs(mem) THEN AccessClose
    ELSE Connected

\* a client opens /ws/organizations/{organization_id}?token=...
WebsocketEndpoint(h, tok, mem) ==
    /\ attempt[h] = NoAttempt
    /\ attempt' = [attempt EXCEPT ![h] =
                     [tok |-> tok, mem |-> mem, out |-> EndpointOutcome(h, tok, mem)]]
    /\ IF EndpointOutcome(h, tok, mem) = Connected
       THEN ManagerConnect(h)
       ELSE UNCHANGED wsvars
    /\ UNCHANGED <<sessvars, callvars>>

EpInit ==
    /\ active_connections = [o \in Orgs |-> NoDict]
    /\ typing_status = [o \in Orgs |-> NoTyping]
    /\ typObj = [t \in Handles |-> NoObj]
    /\ stk = [t \in Tasks |-> <<>>]
    /\ started = {}
    /\ crashed = {}
    /\ alive = [h \in Handles |-> TRUE]
    /\ now = 0
    /\ lastRead = -1
    /\ nEvents = 0
    /\ missed = {}
    /\ unanswered = {}
    /\ inbound = <<>>
    /\ redis_client = FALSE /\ booted = FALSE /\ up = TRUE
    /\ sessions = <<>> /\ user_sessions = <<>> /\ tokens = <<>> /\ req = <<>>
    /\ clock = 0 /\ nTokens = 0 /\ nFlips = 0 /\ nCalls = 0 /\ nOverlaps = 0
    /\ revoked = {} /\ revokedAll = {} /\ quiet = 0
    /\ attempt = [h \in Handles |-> NoAttempt]
    /\ probe = [op |-> "none"]

EpNext ==
    \E h \in Handles, tok \in TokenKinds, mem \in MemberKinds :
        WebsocketEndpoint(h, tok, mem)

\* the prologue of the endpoint, one attempt per handle
EpSpec == EpInit /\ [][EpNext]_vars

(***************************************************************************)
(* One call of verify_access_token or of update_session, with nothing else *)
(* running: the token or the snapshot presented, the store the call meets, *)
(* and the outcome.                                                        *)
(***************************************************************************)
\* int(sub): defined on the strings of digits, ValueError on the others
IntOf == [s \in {"1", "2"} |-> IF s = "1" THEN 1 ELSE 2]

\* what jwt.decode sees of a token; the sub claim is str(id) of a user, an
\* e-mail address, another string, or missing
TokenClaims ==
    [sig : BOOLEAN, expired : BOOLEAN,
     sub : {"1", "2", "u1@example.org", "abc", "<none>"},
     type : {"access", "<none>"}, sid : {NoSid, 1}]

\* as VerifyToken, but the expiry claim is tested after the session lookup
VerifyTokenChecksExpiryLast(p, client, reachable, owner) ==
    LET out(result, user, calls) ==
            [result |-> result, user |-> user, calls |-> calls]
        numeric == p.sub \in DOMAIN IntOf
        ifFresh(o) == IF p.expired THEN out("invalid", NoUser, o.calls) ELSE o
    IN
    IF ~p.sig THEN out("invalid", NoUser, <<>>)
    ELSE IF p.sub = "<none>" \/ p.type # "access" THEN out("invalid", NoUser, <<>>)
    ELSE IF p.sid = NoSid \/ ~client
    THEN IF numeric THEN ifFresh(out("identity", IntOf[p.sub], <<>>))
         ELSE out("raises", NoUser, <<>>)
    ELSE IF ~reachable \/ owner = NoUser THEN out("invalid", NoUser, <<"GET">>)
    ELSE IF ~numeric THEN out("raises", NoUser, <<"GET", "SETEX">>)
    ELSE IF owner # IntOf[p.sub] THEN out("invalid", NoUser, <<"GET", "SETEX">>)
    ELSE ifFresh(out("identity", IntOf[p.sub], <<"GET", "SETEX">>))

\* security.py lines 43-78 with session.py lines 88-111: the result, the
\* identity returned and the calls made to the store; client is
\* session_manager.redis_client, reachable the state of the store, owner the
\* user_id of the record of the session (NoUser: no record)
VerifyToken(p, client, reachable, owner) ==
    LET out(result, user, calls) ==
            [result |-> result, user |-> user, calls |-> calls]
        numeric == p.sub \in DOMAIN IntOf
    IN
    IF ~p.sig \/ p.expired THEN out("invalid", NoUser, <<>>)
    ELSE IF p.sub = "<none>" \/ p.type # "access" THEN out("invalid", NoUser, <<>>)
    ELSE IF p.sid = NoSid \/ ~client
    THEN IF numeric THEN out("identity", IntOf[p.sub], <<>>)
         ELSE out("raises", NoUser, <<>>)
    ELSE IF ~reachable \/ owner = NoUser THEN out("invalid", NoUser, <<"GET">>)
    ELSE IF ~numeric THEN out("raises", NoUser, <<"GET", "SETEX">>)
    ELSE IF owner # IntOf[p.sub] THEN out("invalid", NoUser, <<"GET", "SETEX">>)
    ELSE out("identity", IntOf[p.sub], <<"GET", "SETEX">>)

\* the fields of a user snapshot and their values (0: the snapshot has no
\* such key)
Fields == {"email", "role"}
Snapshots == [Fields -> {0, 1, 2}]
Records ==
    {[live |-> FALSE]} \cup
    [live : {TRUE}, user_id : {1}, created_at : {0}, user_data : Snapshots,
     ttl : 1..SessionTtl]

\* session.py lines 113-133 with lines 88-111: the record of the session
\* after update_session(session_id, user_data) when the record before is rec
UpdateSession(rec, user_data, client, reachable) ==
    IF ~client \/ ~reachable \/ ~rec.live THEN rec
    ELSE [rec EXCEPT !.user_data = user_data, !.ttl = SessionTtl]

VerifyProbe(p, client, reachable, owner) ==
    /\ probe.op = "none"
    /\ probe' = [op |-> "verify", p |-> p, client |-> client,
                 reachable |-> reachable, owner |-> owner,
                 out |-> VerifyToken(p, client, reachable, owner)]
    /\ UNCHANGED <<wsvars, sessvars, epvars>>

UpdateProbe(rec, user_data, client, reachable) ==
    /\ probe.op = "none"
    /\ probe' = [op |-> "update", rec |-> rec, user_data |-> user_data,
                 client |-> client, reachable |-> reachable,
                 out |-> UpdateSession(rec, user_data, client, reachable)]
    /\ UNCHANGED <<wsvars, sessvars, epvars>>

CallInit ==
    /\ probe = [op |-> "none"]
    /\ active_connections = <<>> /\ typing_status = <<>> /\ typObj = <<>>
    /\ stk = <<>> /\ started = {} /\ crashed = {} /\ alive = <<>>
    /\ now = 0 /\ lastRead = 0 /\ nEvents = 0 /\ missed = {}
    /\ unanswered = {} /\ inbound = <<>>
    /\ redis_client = FALSE /\ booted = FALSE /\ up = TRUE
    /\ sessions = <<>> /\ user_sessions = <<>> /\ tokens = <<>> /\ req = <<>>
    /\ clock = 0 /\ nTokens = 0 /\ nFlips = 0 /\ nCalls = 0 /\ nOverlaps = 0
    /\ revoked = {} /\ revokedAll = {} /\ quiet = 0
    /\ attempt = <<>>

CallNext ==
    \/ \E p \in TokenClaims, client \in BOOLEAN, reachable \in BOOLEAN,
          owner \in {NoUser, 1, 2} : VerifyProbe(p, client, reachable, owner)
    \/ \E rec \in Records, user_data \in Snapshots, client \in BOOLEAN,
          reachable \in BOOLEAN : UpdateProbe(rec, user_data, client, reachable)

\* single calls, each on a store state of its own
CallSpec == CallInit /\ [][CallNext]_vars

(***************************************************************************)
(* Properties of the connection manager                                    *)
(***************************************************************************)
ExtFrame == stk[Ext][Len(stk[Ext])]

\* C1: whenever a task can observe the registry, no user of an organization
\* has an empty connection list and no organization has an empty user map.
C1_NoEmptyNodes ==
    \A o \in Orgs :
        active_connections[o].present =>
            /\ Size(active_connections[o]) > 0
            /\ \A u \in LiveKeys(active_connections[o]) :
                  active_connections[o].lists[u] # <<>>

\* a disconnect called by the cleanup loop of a broadcast has removed the last
\* connection of a user and is suspended in its user_offline broadcast
C1_Witness ==
    \E t \in Tasks : \E i \in 2..Len(stk[t]) :
        /\ stk[t][i].fn = "disc"
        /\ stk[t][i - 1].fn = "bc"
        /\ stk[t][i - 1].pc = "cleanup"
        /\ stk[t][i].pc = "orgclean"
        /\ ~HasUser(active_connections[stk[t][i].org], stk[t][i].user)
        /\ Len(stk[t]) > i

\* C6: the delayed clear of a typing(true) event leaves the entry alone when
\* a newer typing event of the same (organization, user), stamped with a
\* later clock reading, has overwritten it.
C6_StaleClearKeepsNewer ==
    [][\A h \in Handles :
          LET ref == typing_status[OrgOf(h)].ent[UserOf(h)] IN
          (/\ AtPc(h, "typ", "sleep")
           /\ ~AtPc(h, "typ", "sleep")'
           /\ typing_status[OrgOf(h)].present
           /\ ref \notin {NoH, h}
           /\ typObj[ref].timestamp > stk[h][Len(stk[h])].ts)
          => typObj'[ref] = typObj[ref]]_wsvars

\* C7: when the delay of a typing(true) event is over and its entry was
\* neither overwritten nor deleted, the entry reads is_typing = false.
C7_ClearedAfterDelay ==
    [][\A h \in Handles :
          (/\ AtPc(h, "typ", "sleep")
           /\ ~AtPc(h, "typ", "sleep")'
           /\ typing_status[OrgOf(h)].present
           /\ typing_status[OrgOf(h)].ent[UserOf(h)] = h)
          => ~typObj'[h].is_typing]_wsvars

\* C11: when the user_offline broadcast of a disconnect that removed the last
\* connection of a user has ended, every connection that was registered in the
\* organization when it began and is still registered and open has been pushed
\* the event.
C11_OfflineReachesAll == missed = {}

\* C8: a broadcast that ended without a failed send has pushed the message to
\* no connection of the excluded user.
C8_NothingToExcluded ==
    (Returning /\ ~ExtFrame.raised /\ ExtFrame.failed = <<>>)
        => \A h \in ExtFrame.pushed : UserOf(h) # ExtFrame.excl

\* C9: when broadcast_to_organization has ended, no handle whose push failed
\* is left in the registry.
C9_FailedUnregistered ==
    Returning =>
        \A i \in 1..Len(ExtFrame.failed) :
            ExtFrame.failed[i][1] \notin RegOf(active_connections[ExtFrame.org])

\* C10: the user_online broadcast of connect is pushed to no connection of
\* the joining user.
C10_NotToJoiningUser ==
    \A t \in Handles :
        (AtPc(t, "bc", "send") /\ stk[t][Len(stk[t])].msg.type = "user_online")
            => UserOf(stk[t][Len(stk[t])].cur) # stk[t][Len(stk[t])].msg.user

(***************************************************************************)
(* Properties of the endpoint prologue                                     *)
(***************************************************************************)
\* the endpoint has answered the attempt of handle h
Answered(h) == attempt[h] # NoAttempt

\* C12: an authenticated user without an active membership in the organization
\* is closed with the access-denied code and is not registered.
C12_NoActiveMembershipDenied ==
    \A h \in Handles :
        (Answered(h) /\ attempt[h].tok = "valid" /\ attempt[h].mem # "active")
            => /\ attempt[h].out = AccessClose
               /\ h \notin RegOf(active_connections[OrgOf(h)])

\* C13: an attempt with no token, a bad signature, an expired token or a token
\* of a revoked session is closed with the authentication code and is not
\* registered.
C13_BadTokenClosed4001 ==
    \A h \in Handles :
        (Answered(h) /\ attempt[h].tok # "valid")
            => /\ attempt[h].out = AuthClose
               /\ AuthClose # AccessClose
               /\ h \notin RegOf(active_connections[OrgOf(h)])

(***************************************************************************)
(* Properties of the token service                                         *)
(***************************************************************************)
\* request r holds the outcome of a verify_access_token call
Verified(r) == req[r].pc = "done" /\ req[r].op = "verify"

\* C2: a verification of a session token that begins after revoke_token of
\* that token has returned fails when the store is reachable, and succeeds on
\* the signature alone when the store is unavailable and the token unexpired.
C2_VerifyAfterRevoke ==
    \A r \in Reqs :
        (Verified(r) /\ req[r].after /\ req[r].sid # NoSid) =>
            /\ req[r].upAll => ~req[r].ok
            /\ (req[r].downAll /\ req[r].valid) => req[r].ok

\* C3: a verification that begins after revoke_all_user_tokens(u) has reached
\* the store and returned fails for every session token issued for u before;
\* an unexpired token without a session verifies.
C3_VerifyAfterRevokeAll ==
    \A r \in Reqs :
        Verified(r) =>
            /\ req[r].afterAll => ~req[r].ok
            /\ (req[r].sid = NoSid /\ req[r].valid) => req[r].ok

\* C4: the verification of a token that follows its issuance at once accepts
\* the token (the identity it returns carries the subject of the token).
C4_VerifyFreshToken ==
    \A r \in Reqs : (Verified(r) /\ req[r].tok = quiet) => req[r].ok

\* C5: a token whose expiry has not passed is accepted when the store is
\* unreachable for the whole verification.
C5_AcceptedWhenStoreDown ==
    \A r \in Reqs : (Verified(r) /\ req[r].valid /\ req[r].downAll) => req[r].ok

(***************************************************************************)
(* Properties of the session store                                         *)
(***************************************************************************)
\* no call is in flight and none has overlapped another call, a second or an
\* outage; the store has answered every call
Sequential == nOverlaps = 0 /\ nFlips = 0 /\ \A r \in Reqs : req[r].op = "idle"

\* session sid is a member of some reverse index
Indexed(sid) == \E u \in Subjects : user_sessions[u].live /\ sid \in user_sessions[u].members

\* request r holds the outcome of a call of op
Returned(r, op) == req[r].pc = "done" /\ req[r].op = op

\* C14: between calls, every session record that exists is a member of the
\* reverse index of its owner.
C14_RecordIsIndexed ==
    Sequential =>
        \A sid \in TokenIds :
            sessions[sid].live =>
                /\ user_sessions[sessions[sid].user_id].live
                /\ sid \in user_sessions[sessions[sid].user_id].members

\* C15: a create_session during which the store failed returns the empty id
\* and leaves no record and no index entry of the session it was creating.
C15_DegradedCreateWritesNothing ==
    \A r \in Reqs :
        (Returned(r, "create") /\ req[r].user # NoUser /\ ~req[r].upAll) =>
            /\ req[r].sid = NoSid
            /\ ~sessions[req[r].tok].live
            /\ ~Indexed(req[r].tok)

\* C16: after revoke_token of a token that embeds session s, with the store
\* reachable and nothing else running, the record of s is absent, whether or
\* not the expiry claim of the token has passed.
C16_RevokeDeletesRecord ==
    \A r \in Reqs :
        (Returned(r, "revoke") /\ req[r].sid # NoSid /\ req[r].upAll /\ nOverlaps = 0)
            => ~sessions[req[r].sid].live

\* C17: the token create_access_token returns carries a session_id if and
\* only if a session record was written for it.
C17_SessionIdIffWritten ==
    \A r \in Reqs :
        Returned(r, "create") => (req[r].sid # NoSid <=> req[r].wrote)

\* C25: get_current_user returns no user, but the 401, for a token whose
\* expiry has passed, for a session token verified, with the store reachable,
\* after its revoke_token has returned, and for a session token whose subject
\* is not the user the session was created for.
C25_InvalidTokenUnauthorized ==
    \A r \in Reqs :
        (/\ Verified(r)
         /\ \/ ~req[r].valid
            \/ req[r].sid # NoSid /\ req[r].upAll /\ req[r].after
            \/ req[r].sid # NoSid /\ req[r].upAll /\ req[r].user # NoUser
                  /\ req[r].user # req[r].sub)
        => GetCurrentUser(req[r]) = Unauthorized

\* C30: a cleanup_expired_sessions that the store answered throughout has
\* dropped from no index an id whose record existed when the index was
\* rewritten.
C30_CleanupKeepsLiveIds ==
    \A r \in Reqs :
        (Returned(r, "cleanup") /\ req[r].upAll) => req[r].lost = {}

\* C32: verify_access_token of a token whose signature does not verify or
\* whose expiry has passed returns invalid and makes no call to the store.
C32_RejectedWithoutStore ==
    (probe.op = "verify" /\ (~probe.p.sig \/ probe.p.expired))
    => /\ probe.out.result = "invalid"
       /\ probe.out.calls = <<>>

C32_Witness ==
    /\ probe.op = "verify" /\ ~probe.p.sig /\ ~probe.p.expired
    /\ probe.p.sub = "1" /\ probe.p.type = "access" /\ probe.p.sid # NoSid
    /\ probe.client /\ probe.reachable /\ probe.owner = 1

\* C34: verify_access_token of a token whose signature verifies returns an
\* identity or invalid, whatever the sub claim holds: it does not raise.
C34_VerifyNeverRaises ==
    (probe.op = "verify" /\ probe.p.sig) => probe.out.result # "raises"

\* C33: update_session on an existing record, with the store reachable,
\* leaves a record whose snapshot is the stored one overridden by the fields
\* of the new data, with the same user_id and created_at and a full time to
\* live; on an absent record it leaves no record.
C33_UpdateMergesSnapshot ==
    (probe.op = "update" /\ probe.client /\ probe.reachable) =>
        IF probe.rec.live
        THEN /\ probe.out.live
             /\ \A k \in Fields :
                   probe.out.user_data[k] =
                      IF probe.user_data[k] # 0 THEN probe.user_data[k]
                      ELSE probe.rec.user_data[k]
             /\ probe.out.user_id = probe.rec.user_id
             /\ probe.out.created_at = probe.rec.created_at
             /\ probe.out.ttl = SessionTtl
        ELSE ~probe.out.live

\* C27: when a revoke_token that found and deleted the record of session s,
\* with the store reachable, holds its outcome and every call that ran beside
\* it has finished, the record of s is absent.
C27_DeletedStaysDeleted ==
    \A r \in Reqs :
        (/\ Returned(r, "revoke") /\ req[r].user # NoUser /\ req[r].upAll
         /\ nFlips = 0
         /\ \A q \in Reqs \ {r} : req[q].op = "idle")
        => ~sessions[req[r].sid].live

C20_DeleteRemovesFromIndex ==
    \A r \in Reqs :
        (Returned(r, "revoke") /\ req[r].sid # NoSid /\ req[r].valid
            /\ req[r].upAll /\ nOverlaps = 0 /\ nFlips = 0)
            => /\ ~sessions[req[r].sid].live
               /\ ~Indexed(req[r].sid)

(***************************************************************************)
(* Properties of send_personal_message and of the inbound frames           *)
(***************************************************************************)
\* C21: when a write of send_personal_message to a handle fails, with any
\* exception, the handle is unregistered, and no open handle of the user that
\* was registered during the whole call is left without the message.
\* C22: a broadcast of a producer that has ended has written its message to
\* every connection whose registration was complete when it began and that is
\* still registered, open and not excluded, and to none of them twice.
C22_RegisteredReceivesAll ==
    Returning =>
        /\ \A h \in ExtFrame.joined :
              (/\ h \in RegOf(active_connections[ExtFrame.org])
               /\ alive[h]
               /\ ~Excluded(ExtFrame.excl, UserOf(h)))
              => h \in ExtFrame.pushed
        /\ ~ExtFrame.twice

\* C26: a broadcast of a producer during which connections register and
\* unregister raises no error, and when it has ended every handle whose write
\* failed is unregistered.
C26_FanOutSurvivesChurn ==
    Returning =>
        /\ ~ExtFrame.raised
        /\ \A i \in 1..Len(ExtFrame.failed) :
              ExtFrame.failed[i][1] \notin RegOf(active_connections[ExtFrame.org])

\* C23: the reply to a ping or a request_online_users of a connection that
\* is registered and open from the handling to its end is written to that
\* connection.
C23_ReplyReachesRequester == \A h \in Handles : <<h, h>> \notin unanswered

\* C24: a step that receives text that is not JSON, or a message of an
\* unrecognized type, changes neither the registry nor the typing state; the
\* first leaves only the sender's endpoint writing an error frame, the second
\* leaves every task where it was; once the error frame is written the sender
\* is receiving again, still registered if it was.
C24_BadFrameLeavesState ==
    [][\A h \in Handles :
          /\ (Len(inbound') = 2 /\ inbound'[1] = h
                 /\ inbound'[2] \in {"unknown", "not_json"})
             => /\ active_connections' = active_connections
                /\ typing_status' = typing_status
                /\ \A t \in Tasks \ {h} : stk'[t] = stk[t]
                /\ inbound'[2] = "unknown" => stk' = stk
                /\ inbound'[2] = "not_json" =>
                      /\ stk'[h] = <<[stk[h][1] EXCEPT !.pc = "jsonerr"]>>
                      /\ Len(stk[h]) = 1
          /\ (AtPc(h, "ep", "jsonerr") /\ alive[h] /\ stk'[h] # stk[h])
             => /\ AtPc(h, "ep", "recv")'
                /\ active_connections' = active_connections
                /\ typing_status' = typing_status]_vars

C24_Witness ==
    \E h \in Handles :
        /\ inbound = <<h, "not_json">>
        /\ h \in RegOf(active_connections[OrgOf(h)])
        /\ typing_status[OrgOf(h)].present

\* C29: a user with no registered connection in an organization has no
\* typing entry there, and an organization with no connections has no typing
\* map (stated for the runs in which only users with a nonzero id, the ones
\* the exclude test of line 110 recognizes, have connected).
C29_NoTypingForOffline ==
    (\A h \in started : Truthy(UserOf(h))) =>
    \A o \in Orgs :
        /\ typing_status[o].present => active_connections[o].present
        /\ \A u \in Users :
              (typing_status[o].present /\ typing_status[o].ent[u] # NoH)
              => HasUser(active_connections[o], u)

\* C31: while the clear delay of a typing event of a connection runs, the
\* receive loop of that connection is in receive_text, ready for its next
\* inbound message.
C31_ClearIsDeferred ==
    \A h \in Handles :
        AtPc(h, "typ", "sleep") => stk[h][1].pc = "recv"

\* C35: when the endpoint of a handle that is no longer registered (it was
\* evicted after a failed write) calls disconnect, the registry and the
\* typing state stay as they are, nothing is sent and nothing is raised: the
\* endpoint ends at once.
C35_SecondDisconnectIsNoOp ==
    [][\A h \in Handles :
          (/\ \/ AtPc(h, "ep", "recv")
              \/ AtPc(h, "ep", "errsend")
              \/ AtPc(h, "ep", "jsonerr")
           /\ ~alive[h]
           /\ nEvents' = nEvents
           /\ stk'[h] # stk[h]
           /\ h \notin RegOf(active_connections[OrgOf(h)]))
          => /\ active_connections' = active_connections
             /\ typing_status' = typing_status
             /\ stk' = [stk EXCEPT ![h] = <<>>]
             /\ crashed' = crashed
             /\ missed' = missed]_vars

\* the endpoint of an evicted handle is about to call disconnect while
\* another connection of its user is registered
C35_Witness ==
    \E h \in Handles :
        /\ ~Returning
        /\ AtPc(h, "ep", "recv")
        /\ ~alive[h]
        /\ h \notin RegOf(active_connections[OrgOf(h)])
        /\ HasUser(active_connections[OrgOf(h)], UserOf(h))

\* C36: organizations are isolated. A broadcast for an organization writes
\* only to handles registered under that organization, a registry holds only
\* handles of its own organization, and the connections and the typing state
\* of an organization change only in steps of a task of that organization:
\* unregistering a connection elsewhere leaves them as they are.
C36_OrganizationsIsolated ==
    /\ [](\A t \in Tasks : \A i \in 1..Len(stk[t]) :
            (stk[t][i].fn = "bc" /\ stk[t][i].pc = "send")
            => OrgOf(stk[t][i].cur) = stk[t][i].org)
    /\ [](\A o \in Orgs : \A h \in RegOf(active_connections[o]) : OrgOf(h) = o)
    /\ [][\A o \in Orgs :
            (\/ active_connections'[o] # active_connections[o]
             \/ typing_status'[o] # typing_status[o])
            => \E t \in Tasks :
                  /\ \/ stk'[t] # stk[t]
                     \/ Len(inbound') = 2 /\ inbound'[1] = t
                  /\ \/ t \in Handles /\ OrgOf(t) = o
                     \/ /\ t = Ext
                        /\ \/ Len(stk[Ext]) > 0 /\ stk[Ext][1].org = o
                           \/ Len(stk'[Ext]) > 0 /\ stk'[Ext][1].org = o]_vars

\* user 1 has left organization 1 by the disconnect of its endpoint while its
\* connection and its typing entry in organization 2 are in place
C36_Witness ==
    /\ "h1" \in started /\ stk["h1"] = <<>> /\ "h1" \notin crashed
    /\ ~HasUser(active_connections[1], 1)
    /\ "h4" \in RegOf(active_connections[2])
    /\ typing_status[2].present
    /\ typing_status[2].ent[1] = "h4"

\* C28: the broadcast of a producer does not stay suspended forever in the
\* send to one connection: after a bounded deadline it goes on to the others.
C28_StalledSendTimesOut ==
    \A h \in Handles :
        (AtPc(Ext, "bc", "send") /\ ExtFrame.cur = h)
        ~> ~(AtPc(Ext, "bc", "send") /\ ExtFrame.cur = h)

C21_FailedPushUnregisters ==
    [][\A h \in Handles :
          (/\ AtPc(h, "pm", "send")
           /\ ~alive[stk[h][2].cur]
           /\ stk'[h] # stk[h]
           /\ \/ Len(stk'[h]) # 2
              \/ stk'[h][2].pc # "send"
              \/ stk'[h][2].li # stk[h][2].li)
          => /\ stk[h][2].cur \notin RegOf(active_connections'[stk[h][2].org])
             /\ unanswered' = unanswered]_vars

====
